---- MODULE Spec2Model ----
(***************************************************************************)
(* WebRuntime (src/runtime.js): a data-driven interpreter of card-game     *)
(* rules.  The GameState object is the variable `state`; initState is the  *)
(* initial-state predicate; executeAction, executeAbility and              *)
(* getAvailableActions are the actions.  Effect handlers are operators     *)
(* over a result record [st, events, err] threaded through an effect list. *)
(***************************************************************************)
EXTENDS Integers, Sequences, FiniteSets, Bags, TLC

VARIABLES
  state,   \* the GameState the caller holds (mutated in place by every call)
  prev,    \* the GameState as it was when the last call was entered
  call,    \* the last call: kind, id, params, the error thrown, the events and value returned
  calls,   \* number of calls made after initState
  thrown,  \* whether some call made after initState has thrown
  setup,   \* the seed of the constructor, the arguments of initState and the deck it built before dealing
  twin     \* a second runtime built from the same rules and seed and given the same calls:
           \* its GameState, and what its last call threw and returned

vars == <<state, prev, call, calls, thrown, setup, twin>>

(***************************************************************************)
(* Bounds of the model.                                                    *)
(***************************************************************************)
MaxCalls == 3      \* calls made after initState
MaxTwinCalls == 2  \* calls made after initState when two runtimes are run side by side
MaxPlayers == 2    \* length of the players list given to initState
MaxIdx == 1        \* largest index a caller supplies in params
RngDen == 2        \* rng() returns n / RngDen, n in 0 .. RngDen - 1

(***************************************************************************)
(* JavaScript values.  null/undefined where a number or an id is expected  *)
(* is Nil; an undefined array element is Undefined.  A JavaScript array is *)
(* [len, el]: el is a function on the indices (0-based) that hold an       *)
(* element, so an index below len outside DOMAIN el is a hole.             *)
(***************************************************************************)
Nil == -1
Undefined == <<"undefined">>
UndefinedId == "undefined"

Arr(s) == [len |-> Len(s), el |-> [i \in 0 .. (Len(s) - 1) |-> s[i + 1]]]

arrGet(a, i) == IF i \in DOMAIN a.el THEN a.el[i] ELSE Undefined

arrSet(a, i, v) ==
  [len |-> IF i + 1 > a.len THEN i + 1 ELSE a.len, el |-> (i :> v) @@ a.el]

arrPush(a, v) == arrSet(a, a.len, v)

\* a.splice(idx, 1): the array left behind (idx >= 0)
arrRemoveAt(a, idx) ==
  IF idx >= a.len THEN a
  ELSE LET from(j) == IF j < idx THEN j ELSE j + 1
       IN [len |-> a.len - 1,
           el |-> [j \in {k \in 0 .. (a.len - 2) : from(k) \in DOMAIN a.el}
                     |-> a.el[from(j)]]]

\* a.splice(0, n): the elements returned, and the array left behind
arrTake(a, n) ==
  LET m == IF n < a.len THEN n ELSE a.len
  IN [len |-> m, el |-> [j \in {k \in DOMAIN a.el : k < m} |-> a.el[j]]]

arrDrop(a, n) ==
  LET m == IF n < a.len THEN n ELSE a.len
  IN [len |-> a.len - m,
      el |-> [j \in {k \in 0 .. (a.len - m - 1) : k + m \in DOMAIN a.el}
                |-> a.el[j + m]]]

\* new Array(n).fill(v)
arrFill(n, v) == [len |-> n, el |-> [i \in 0 .. (n - 1) |-> v]]

\* [...a]: holes are copied as undefined
arrCopy(a) == [len |-> a.len, el |-> [i \in 0 .. (a.len - 1) |-> arrGet(a, i)]]

\* {}
\* F(v), with v computed once
Bind(v, F(_)) == CHOOSE out \in {F(x) : x \in {v}} : TRUE

EmptyObject == [n \in {} |-> Nil]

\* a % n of JavaScript for n > 0: the sign of the result is that of a
jsRem(a, n) == IF a >= 0 THEN a % n ELSE 0 - ((0 - a) % n)

\* an optional field of a rule-document object
Has(obj, f) == f \in DOMAIN obj
Get(obj, f, default) == IF f \in DOMAIN obj THEN obj[f] ELSE default

(***************************************************************************)
(* The rule document.  A card code is the string rank + suit, modelled as  *)
(* the sequence of its characters.                                         *)
(***************************************************************************)
metadata ==
  [deck |-> [ranks |-> << <<"A">>, <<"K">> >>, suits |-> << <<"H">>, <<"S">> >>],
   setup |-> [initialHandSize |-> 1, shuffle |-> FALSE],
   cardValues |-> (<<"A">> :> 1) @@ (<<"K">> :> 10),
   cardAbilities |-> (<<"K", "H">> :> "peek") @@ (<<"K", "S">> :> "peek"),
   kabuWinScore |-> 5]

\* Condition expressions (JavaScript source in the rule document), as syntax
\* trees: a path into the scope, negation, and comparison with a literal.
ExprNotHasDrawn == [k |-> "not", a |-> [k |-> "path", p |-> <<"turn", "hasDrawn">>]]   \* "!turn.hasDrawn"
ExprDiscardNonEmpty == [k |-> "gt", p |-> <<"discard", "size">>, n |-> 0]              \* "discard.size > 0"
ExprHasWinner == [k |-> "path", p |-> <<"state", "match", "hasWinner">>]               \* "state.match.hasWinner"
ExprEmpty == [k |-> "empty"]                                                          \* ""
ExprNextHasCards == [k |-> "gt", p |-> <<"nextPlayer", "hand", "len">>, n |-> 0]        \* "nextPlayer.hand.length > 0"
ExprParamAbsent == [k |-> "isNull", p |-> <<"params", "handIndex">>]                   \* "params.handIndex == null"

actions ==
  [draw |->
     [id |-> "draw", allowedPhases |-> <<"main_turn">>,
      effects |-> << [op |-> "moveCard", from |-> "deck", to |-> "currentPlayer.hand"] >>],
   burn |->
     [id |-> "burn", allowedPhases |-> <<"main_turn">>,
      effects |-> << [op |-> "moveCardByIndex", from |-> "currentPlayer.hand",
                      to |-> "discard", param |-> "handIndex"] >>],
   take_discard |->
     [id |-> "take_discard", allowedPhases |-> <<"main_turn">>,
      conditions |-> <<ExprDiscardNonEmpty, ExprNotHasDrawn>>,
      effects |-> << [op |-> "moveCard", from |-> "discard", to |-> "currentPlayer.hand"],
                     [op |-> "setFlag", target |-> "turn", flag |-> "hasDrawn", value |-> TRUE],
                     [op |-> "log", template |-> <<"{player}", " takes the discard">>] >>],
   discard_card |->
     [id |-> "discard_card", allowedPhases |-> <<"main_turn">>,
      effects |-> << [op |-> "moveCard", from |-> "currentPlayer.hand", to |-> "discard",
                      param |-> "handIndex"],
                     [op |-> "setFlag", target |-> "turn", flag |-> "hasDiscarded", value |-> TRUE],
                     [op |-> "setFlag", target |-> "turn", flag |-> "justBurned", value |-> TRUE] >>],
   use_card |->
     [id |-> "use_card", allowedPhases |-> <<"main_turn">>,
      effects |-> << [op |-> "runAbilityForCard", handIndexParam |-> "handIndex"],
                     [op |-> "setFlag", target |-> "turn", flag |-> "hasUsedAbility", value |-> TRUE] >>],
   swap |->
     [id |-> "swap", allowedPhases |-> <<"main_turn">>,
      effects |-> << [op |-> "swapCards", fromIndexParam |-> "from", toIndexParam |-> "to"] >>],
   peek_swap |->
     [id |-> "peek_swap", allowedPhases |-> <<"main_turn">>,
      effects |-> << [op |-> "swapCardsWithPeek", myIndexParam |-> "from",
                      opponentIndexParam |-> "to"] >>],
   end_turn |->
     [id |-> "end_turn",
      effects |-> << [op |-> "advanceTurnOrder"] >>],
   call_kabu |->
     [id |-> "call_kabu", allowedPhases |-> <<"main_turn">>,
      effects |-> << [op |-> "advanceTurnOrder", phaseId |-> "last_round"] >>],
   show |->
     [allowedPhases |-> <<"main_turn", "last_round">>,
      effects |-> << [op |-> "revealAllHands"] >>],
   score |->
     [id |-> "score", allowedPhases |-> <<"main_turn", "last_round">>,
      effects |-> << [op |-> "scoreRound"] >>],
   settle |->
     [id |-> "settle", allowedPhases |-> <<"last_round", "game_over">>,
      effects |-> << [op |-> "if", condition |-> ExprHasWinner,
                      then |-> << [op |-> "log", template |-> <<"winner: ", "{param}">>] >>,
                      else |-> << [op |-> "resetTurnFlags"],
                                  [op |-> "setPhase", phaseId |-> "main_turn"] >>] >>],
   look |->
     [id |-> "look", allowedPhases |-> <<"main_turn">>,
      conditions |-> <<ExprNextHasCards>>,
      effects |-> << [op |-> "setFlag", target |-> "turn", flag |-> "hasUsedAbility", value |-> TRUE],
                     [op |-> "revealCard", target |-> "nextPlayer", handIndexParam |-> "handIndex"],
                     [op |-> "log", template |-> <<"{player}", " looked">>] >>],
   skip_to |->
     [id |-> "skip_to", allowedPhases |-> <<"main_turn">>,
      effects |-> << [op |-> "setFlag", target |-> "turn", flag |-> "currentPlayerIndex",
                      value |-> 1] >>],
   resume |->
     [id |-> "resume", allowedPhases |-> <<"game_over">>,
      effects |-> << [op |-> "setPhase", phaseId |-> "main_turn"] >>],
   frozen |->
     [id |-> "frozen", allowedPhases |-> <<>>,
      effects |-> << [op |-> "resetTurnFlags"] >>],
   probe |->
     [id |-> "probe", allowedPhases |-> <<"main_turn">>,
      conditions |-> <<ExprParamAbsent>>,
      effects |-> << [op |-> "if", condition |-> ExprParamAbsent,
                      then |-> << [op |-> "log", template |-> <<"no index">>] >>,
                      else |-> << [op |-> "revealAllHands"] >>],
                     [op |-> "revealCard", target |-> "currentPlayer",
                      handIndexParam |-> "handIndex"] >>],
   stash |->
     [id |-> "stash", allowedPhases |-> <<"main_turn">>,
      effects |-> << [op |-> "setFlag", target |-> "turn", flag |-> "hasDiscarded", value |-> TRUE],
                     [op |-> "moveCard", from |-> "deck", to |-> "graveyard"] >>],
   dig |->
     [id |-> "dig", allowedPhases |-> <<"main_turn">>,
      effects |-> << [op |-> "moveCard", from |-> "graveyard", to |-> "discard"] >>],
   mark |->
     [id |-> "mark", allowedPhases |-> <<"main_turn">>,
      effects |-> << [op |-> "setFlag", target |-> "table", flag |-> "marked", value |-> TRUE] >>],
   wave |->
     [id |-> "wave", allowedPhases |-> <<"main_turn">>,
      effects |-> << [op |-> "resetTurnFlags"], [op |-> "shout"] >>]]

abilities ==
  [peek |->
     [id |-> "peek", allowedPhases |-> <<"main_turn">>,
      effects |-> << [op |-> "revealCard", target |-> "currentPlayer",
                      handIndexParam |-> "handIndex"] >>],
   inspect |->
     [id |-> "inspect", allowedPhases |-> <<>>,
      conditions |-> <<ExprParamAbsent>>,
      effects |-> << [op |-> "if", condition |-> ExprParamAbsent,
                      then |-> << [op |-> "log", template |-> <<"no index">>] >>,
                      else |-> << [op |-> "revealCard", target |-> "currentPlayer",
                                   handIndexParam |-> "handIndex"] >>] >>]]

rules == [metadata |-> metadata, actions |-> actions, abilities |-> abilities]

\* Object.values(actions): the actions in the order of their keys
actionKeys ==
  <<"draw", "burn", "take_discard", "discard_card", "use_card", "swap", "peek_swap",
    "end_turn", "call_kabu", "show", "score", "settle", "look", "skip_to", "resume",
    "frozen", "probe", "stash", "dig", "mark", "wave">>

\* String tests of the resolvers, on the references a rule document uses
includesNextPlayer(ref) == ref \in {"nextPlayer", "nextPlayer.hand"}
endsWithHand(ref) == ref \in {"hand", "currentPlayer.hand", "nextPlayer.hand"}

\* params?.[name]
paramGet(params, name) == IF name \in DOMAIN params THEN params[name] ELSE Nil

(***************************************************************************)
(* Resolvers.  A player is named by its index in state.players (0-based),  *)
(* a pile by [pile, player]: both are references into the one GameState.   *)
(***************************************************************************)
playerCount(st) == Len(st.players)

\* state.players[k] is a player (and not undefined)
hasPlayer(st, k) == k + 1 \in DOMAIN st.players

\* the seat of the caller, where the caller is a player, taken for the current player
resolvePlayerByCaller(st, playerId, ref) ==
  LET found == {k \in 0 .. (playerCount(st) - 1) : st.players[k + 1].id = playerId}
      seat == IF found # {} THEN CHOOSE k \in found : \A j \in found : k <= j
              ELSE st.turn.currentPlayerIndex
  IN IF ref = "nextPlayer" THEN jsRem(seat + 1, playerCount(st)) ELSE seat

resolvePlayer(st, playerId, ref) ==
  IF ref = "currentPlayer" THEN st.turn.currentPlayerIndex
  ELSE IF ref = "nextPlayer" THEN jsRem(st.turn.currentPlayerIndex + 1, playerCount(st))
  ELSE LET found == {k \in 0 .. (playerCount(st) - 1) : st.players[k + 1].id = playerId}
       IN IF found # {} THEN CHOOSE k \in found : \A j \in found : k <= j ELSE 0

resolvePile(st, playerId, ref, paramName, params, forcedIndex) ==
  IF ref = "deck" THEN [err |-> "none", pile |-> "deck", player |-> Nil, index |-> forcedIndex]
  ELSE IF ref = "discard" THEN [err |-> "none", pile |-> "discard", player |-> Nil, index |-> forcedIndex]
  ELSE LET k == resolvePlayer(st, playerId,
                              IF includesNextPlayer(ref) THEN "nextPlayer" ELSE "currentPlayer")
       IN IF endsWithHand(ref) /\ ~hasPlayer(st, k)
          THEN [err |-> "TypeError", pile |-> "none", player |-> k, index |-> Nil]
          ELSE IF endsWithHand(ref)
          THEN [err |-> "none", pile |-> "hand", player |-> k,
                index |-> IF forcedIndex # Nil THEN forcedIndex ELSE paramGet(params, paramName)]
          ELSE [err |-> "UnsupportedReference", pile |-> "none", player |-> k, index |-> Nil]

pileAt(st, loc) ==
  IF loc.pile = "deck" THEN st.deck
  ELSE IF loc.pile = "discard" THEN st.discard
  ELSE st.players[loc.player + 1].hand

withPile(st, loc, a) ==
  IF loc.pile = "deck" THEN [st EXCEPT !.deck = a]
  ELSE IF loc.pile = "discard" THEN [st EXCEPT !.discard = a]
  ELSE [st EXCEPT !.players[loc.player + 1].hand = a]

\* a card code is truthy unless it is undefined (or the empty string)
truthyCard(card) == card # Undefined /\ card # <<>>

\* mutant: the bottom of the pile (index 0) is the default, not the top
extractFromBottom(st, ref, playerId, paramName, params, forcedIndex) ==
  LET loc == resolvePile(st, playerId, ref, paramName, params, forcedIndex)
  IN IF loc.err # "none" THEN [err |-> loc.err, st |-> st, card |-> Undefined]
     ELSE LET pile == pileAt(st, loc)
              idx == IF loc.index # Nil THEN loc.index ELSE 0
          IN IF pile.len = 0 THEN [err |-> "none", st |-> st, card |-> Undefined]
             ELSE [err |-> "none", st |-> withPile(st, loc, arrRemoveAt(pile, idx)),
                   card |-> arrGet(pile, idx)]

extractFrom(st, ref, playerId, paramName, params, forcedIndex) ==
  LET loc == resolvePile(st, playerId, ref, paramName, params, forcedIndex)
  IN IF loc.err # "none" THEN [err |-> loc.err, st |-> st, card |-> Undefined]
     ELSE LET pile == pileAt(st, loc)
              idx == IF loc.index # Nil THEN loc.index ELSE pile.len - 1
          IN IF pile.len = 0 THEN [err |-> "none", st |-> st, card |-> Undefined]
             ELSE [err |-> "none", st |-> withPile(st, loc, arrRemoveAt(pile, idx)),
                   card |-> arrGet(pile, idx)]

pushTo(st, ref, playerId, card) ==
  LET loc == resolvePile(st, playerId, ref, UndefinedId, EmptyObject, Nil)
  IN IF loc.err # "none" THEN [err |-> loc.err, st |-> st]
     ELSE [err |-> "none", st |-> withPile(st, loc, arrPush(pileAt(st, loc), card))]

resolveTarget(st, playerId, ref) ==
  IF ref \in {"turn", "round", "match"} THEN [err |-> "none", rec |-> ref, player |-> Nil]
  ELSE IF ref \in {"turn.currentPlayer", "currentPlayer"}
    THEN [err |-> "none", rec |-> "player", player |-> resolvePlayer(st, playerId, "currentPlayer")]
  ELSE IF ref = "nextPlayer"
    THEN [err |-> "none", rec |-> "player", player |-> resolvePlayer(st, playerId, "nextPlayer")]
  ELSE [err |-> "UnsupportedTarget", rec |-> "none", player |-> Nil]

(***************************************************************************)
(* Condition evaluation.  The scope is the record buildConditionScope      *)
(* returns; an expression reads it through paths.  A path that ends at a   *)
(* missing property is undefined (falsy, and no number compares with it).  *)
(***************************************************************************)
handScore(hand, values) ==
  LET cards == {i \in DOMAIN hand.el : TRUE}
      rank(card) == SubSeq(card, 1, Len(card) - 1)
      value(card) == IF rank(card) \in DOMAIN values THEN values[rank(card)] ELSE 0
      RECURSIVE sum(_)
      sum(S) == IF S = {} THEN 0
                ELSE LET i == CHOOSE j \in S : TRUE IN value(hand.el[i]) + sum(S \ {i})
  IN IF \E i \in cards : hand.el[i] = Undefined
     THEN [err |-> "TypeError", score |-> 0]
     ELSE [err |-> "none", score |-> sum(cards)]

\* state.players[k], undefined outside the array
playerAt(st, k) == IF hasPlayer(st, k) THEN st.players[k + 1] ELSE Undefined

buildConditionScope(st, playerId, params, abilityContext) ==
  [state |-> st,
   metadata |-> rules.metadata,
   currentPlayer |-> playerAt(st, resolvePlayer(st, playerId, "currentPlayer")),
   nextPlayer |-> playerAt(st, resolvePlayer(st, playerId, "nextPlayer")),
   deck |-> [size |-> st.deck.len],
   discard |-> [size |-> st.discard.len],
   turn |-> st.turn,
   params |-> params,
   abilityContext |-> abilityContext]

RECURSIVE evalPath(_, _)
evalPath(v, p) ==
  IF p = <<>> THEN [def |-> TRUE, v |-> v]
  ELSE IF Head(p) \in DOMAIN v THEN evalPath(v[Head(p)], Tail(p))
  ELSE [def |-> FALSE, v |-> Nil]

RECURSIVE evalExpr(_, _)
evalExpr(expr, scope) ==
  IF expr.k = "path" THEN LET x == evalPath(scope, expr.p) IN x.def /\ x.v
  ELSE IF expr.k = "not" THEN ~evalExpr(expr.a, scope)
  ELSE IF expr.k = "gt" THEN LET x == evalPath(scope, expr.p) IN x.def /\ x.v # Nil /\ x.v > expr.n
  ELSE IF expr.k = "le" THEN LET x == evalPath(scope, expr.p) IN x.def /\ x.v # Nil /\ x.v <= expr.n
  ELSE IF expr.k = "eq" THEN LET x == evalPath(scope, expr.p) IN x.def /\ x.v = expr.n
  ELSE IF expr.k = "notNull" THEN LET x == evalPath(scope, expr.p) IN x.def /\ x.v # Nil
  ELSE IF expr.k = "isNull" THEN LET x == evalPath(scope, expr.p) IN ~x.def \/ x.v = Nil
  ELSE FALSE

evaluateCondition(expr, st, playerId, params, abilityContext) ==
  IF expr.k = "empty" THEN TRUE
  ELSE evalExpr(expr, buildConditionScope(st, playerId, params, abilityContext))

(***************************************************************************)
(* Effect handlers.  r = [st, events, err] is the GameState, the events    *)
(* accumulator of the call and the error thrown so far ("none": none);     *)
(* ctx = [playerId, params] and, in an ability, abilityContext.            *)
(***************************************************************************)
Fail(r, e) == [r EXCEPT !.err = e]

pushEvent(r, ev) == [r EXCEPT !.events = Append(@, ev)]

RECURSIVE moveCards(_, _, _, _)
moveCards(effect, r, ctx, n) ==
  IF n <= 0 \/ r.err # "none" THEN r
  ELSE LET x == extractFrom(r.st, effect.from, ctx.playerId,
                            Get(effect, "param", UndefinedId), ctx.params, Nil)
       IN IF x.err # "none" THEN Fail(r, x.err)
          ELSE IF ~truthyCard(x.card) THEN moveCards(effect, [r EXCEPT !.st = x.st], ctx, n - 1)
          ELSE LET y == pushTo(x.st, effect.to, ctx.playerId, x.card)
               IN IF y.err # "none" THEN [r EXCEPT !.st = x.st, !.err = y.err]
                  ELSE moveCards(effect, [r EXCEPT !.st = y.st], ctx, n - 1)

handleMoveCard(effect, r, ctx) == moveCards(effect, r, ctx, Get(effect, "count", 1))

handleMoveCardByIndex(effect, r, ctx) ==
  LET idx == paramGet(ctx.params, Get(effect, "param", UndefinedId))
      x == extractFrom(r.st, effect.from, ctx.playerId, UndefinedId, ctx.params, idx)
  IN IF x.err # "none" THEN Fail(r, x.err)
     ELSE IF ~truthyCard(x.card) THEN [r EXCEPT !.st = x.st]
     ELSE LET y == pushTo(x.st, effect.to, ctx.playerId, x.card)
          IN IF y.err # "none" THEN [r EXCEPT !.st = x.st, !.err = y.err]
             ELSE [r EXCEPT !.st = y.st]

setField(rec, f, v) == IF f \in DOMAIN rec THEN [rec EXCEPT ![f] = v] ELSE (f :> v) @@ rec

handleSetFlag(effect, r, ctx) ==
  LET t == resolveTarget(r.st, ctx.playerId, effect.target)
  IN IF t.err # "none" THEN Fail(r, t.err)
     ELSE IF t.rec = "turn" THEN [r EXCEPT !.st.turn = setField(@, effect.flag, effect.value)]
     ELSE IF t.rec = "round" THEN [r EXCEPT !.st.round = setField(@, effect.flag, effect.value)]
     ELSE IF t.rec = "match" THEN [r EXCEPT !.st.match = setField(@, effect.flag, effect.value)]
     ELSE IF ~hasPlayer(r.st, t.player) THEN Fail(r, "TypeError")
     ELSE [r EXCEPT !.st.players[t.player + 1] = setField(@, effect.flag, effect.value)]

handleResetTurnFlags(effect, r, ctx) ==
  [r EXCEPT !.st.turn.hasDrawn = FALSE, !.st.turn.justBurned = FALSE,
            !.st.turn.hasUsedAbility = FALSE, !.st.turn.hasDiscarded = FALSE]

\* mutant: the index is advanced without the wraparound
handleAdvanceTurnOrderNoWrap(effect, r, ctx) ==
  LET next == r.st.turn.currentPlayerIndex + 1
      phase == IF Get(effect, "phaseId", "") # "" THEN effect.phaseId ELSE r.st.turn.phaseId
  IN handleResetTurnFlags(effect,
       [r EXCEPT !.st.turn.currentPlayerIndex = next, !.st.turn.phaseId = phase], ctx)

handleAdvanceTurnOrder(effect, r, ctx) ==
  LET next == jsRem(r.st.turn.currentPlayerIndex + 1, playerCount(r.st))
      phase == IF Get(effect, "phaseId", "") # "" THEN effect.phaseId ELSE r.st.turn.phaseId
  IN handleResetTurnFlags(effect,
       [r EXCEPT !.st.turn.currentPlayerIndex = next, !.st.turn.phaseId = phase], ctx)

handleSetPhase(effect, r, ctx) == [r EXCEPT !.st.turn.phaseId = effect.phaseId]

\* template.replace(token, text): the first occurrence only
RECURSIVE replaceFirst(_, _, _)
replaceFirst(template, token, text) ==
  IF template = <<>> THEN <<>>
  ELSE IF Head(template) = token THEN <<text>> \o Tail(template)
  ELSE <<Head(template)>> \o replaceFirst(Tail(template), token, text)

RECURSIVE joinText(_)
joinText(parts) == IF parts = <<>> THEN "" ELSE Head(parts) \o joinText(Tail(parts))

handleLog(effect, r, ctx) ==
  LET k == resolvePlayer(r.st, ctx.playerId, "currentPlayer")
      name == IF hasPlayer(r.st, k) /\ r.st.players[k + 1].name # "" THEN r.st.players[k + 1].name
              ELSE "Player " \o ToString(ctx.playerId)
      text == joinText(replaceFirst(replaceFirst(Get(effect, "template", <<>>), "{player}", name),
                                    "{param}", ToString(ctx.params)))
  IN [r EXCEPT !.st.log = Append(@, text)]

RECURSIVE revealHands(_, _)
revealHands(r, k) ==
  IF k > playerCount(r.st) THEN r
  ELSE LET p == r.st.players[k]
       IN revealHands(
            pushEvent([r EXCEPT !.st.players[k].known = arrFill(p.hand.len, TRUE)],
                      [type |-> "hand_reveal", playerId |-> p.id, hand |-> arrCopy(p.hand)]),
            k + 1)

handleRevealAllHands(effect, r, ctx) == revealHands(r, 1)

RECURSIVE scorePlayers(_, _)
scorePlayers(r, k) ==
  IF k > playerCount(r.st) THEN r
  ELSE LET p == r.st.players[k]
           h == handScore(p.hand, Get(rules.metadata, "cardValues", EmptyObject))
       IN IF h.err # "none" THEN Fail(r, h.err)
          ELSE scorePlayers(
                 pushEvent([r EXCEPT !.st.players[k].score = p.score + h.score],
                           [type |-> "round_score", playerId |-> p.id, score |-> h.score]),
                 k + 1)

\* mutant: the last qualifying player wins, not the first
handleScoreRoundLastWins(effect, r, ctx) ==
  LET s == scorePlayers(r, 1)
      winScore == Get(rules.metadata, "kabuWinScore", Nil)
      low == {k \in 1 .. playerCount(s.st) : s.st.players[k].score <= winScore}
      winner == CHOOSE k \in low : \A j \in low : k >= j
  IN IF s.err # "none" \/ winScore = Nil \/ low = {} THEN s
     ELSE [s EXCEPT !.st.match.hasWinner = TRUE,
                    !.st.match.winnerId = s.st.players[winner].id,
                    !.st.turn.phaseId = "game_over"]

handleScoreRound(effect, r, ctx) ==
  LET s == scorePlayers(r, 1)
      winScore == Get(rules.metadata, "kabuWinScore", Nil)
      low == {k \in 1 .. playerCount(s.st) : s.st.players[k].score <= winScore}
      winner == CHOOSE k \in low : \A j \in low : k <= j
  IN IF s.err # "none" \/ winScore = Nil \/ low = {} THEN s
     ELSE [s EXCEPT !.st.match.hasWinner = TRUE,
                    !.st.match.winnerId = s.st.players[winner].id,
                    !.st.turn.phaseId = "game_over"]

\* mutant: the known flags of the two slots are left as they were
handleSwapCardsKeepKnown(effect, r, ctx) ==
  LET st == r.st
      fromK == resolvePlayer(st, ctx.playerId, Get(effect, "fromPlayer", "currentPlayer")) + 1
      toK == resolvePlayer(st, ctx.playerId, Get(effect, "toPlayer", "nextPlayer")) + 1
      fromIdx == paramGet(ctx.params, Get(effect, "fromIndexParam", UndefinedId))
      toIdx == paramGet(ctx.params, Get(effect, "toIndexParam", UndefinedId))
      fromCard == arrGet(st.players[fromK].hand, fromIdx)
      toCard == arrGet(st.players[toK].hand, toIdx)
      st1 == [st EXCEPT !.players[fromK].hand = arrSet(@, fromIdx, toCard)]
      st2 == [st1 EXCEPT !.players[toK].hand = arrSet(@, toIdx, fromCard)]
  IN IF fromIdx = Nil \/ toIdx = Nil THEN Fail(r, "MissingIndex")
     ELSE IF ~hasPlayer(st, fromK - 1) \/ ~hasPlayer(st, toK - 1) THEN Fail(r, "TypeError")
     ELSE [r EXCEPT !.st = st2]

handleSwapCards(effect, r, ctx) ==
  LET st == r.st
      fromK == resolvePlayer(st, ctx.playerId, Get(effect, "fromPlayer", "currentPlayer")) + 1
      toK == resolvePlayer(st, ctx.playerId, Get(effect, "toPlayer", "nextPlayer")) + 1
      fromIdx == paramGet(ctx.params, Get(effect, "fromIndexParam", UndefinedId))
      toIdx == paramGet(ctx.params, Get(effect, "toIndexParam", UndefinedId))
      reveal == Get(effect, "reveal", FALSE)
      fromCard == arrGet(st.players[fromK].hand, fromIdx)
      toCard == arrGet(st.players[toK].hand, toIdx)
      st1 == [st EXCEPT !.players[fromK].hand = arrSet(@, fromIdx, toCard)]
      st2 == [st1 EXCEPT !.players[toK].hand = arrSet(@, toIdx, fromCard)]
      st3 == [st2 EXCEPT !.players[fromK].known = arrSet(@, fromIdx, reveal)]
      st4 == [st3 EXCEPT !.players[toK].known = arrSet(@, toIdx, reveal)]
      ev1 == [type |-> "card_reveal", playerId |-> st.players[fromK].id,
              cardIndex |-> fromIdx, card |-> toCard]
      ev2 == [type |-> "card_reveal", playerId |-> st.players[toK].id,
              cardIndex |-> toIdx, card |-> fromCard]
  IN IF fromIdx = Nil \/ toIdx = Nil THEN Fail(r, "MissingIndex")
     ELSE IF ~hasPlayer(st, fromK - 1) \/ ~hasPlayer(st, toK - 1) THEN Fail(r, "TypeError")
     ELSE IF reveal THEN pushEvent(pushEvent([r EXCEPT !.st = st4], ev1), ev2)
     ELSE [r EXCEPT !.st = st4]

handleSwapCardsWithPeek(effect, r, ctx) ==
  LET st == r.st
      myK == resolvePlayer(st, ctx.playerId, Get(effect, "fromPlayer", "currentPlayer")) + 1
      oppK == resolvePlayer(st, ctx.playerId, Get(effect, "toPlayer", "nextPlayer")) + 1
      myIdx == paramGet(ctx.params, Get(effect, "myIndexParam", UndefinedId))
      oppIdx == paramGet(ctx.params, Get(effect, "opponentIndexParam", UndefinedId))
      myCard == arrGet(st.players[myK].hand, myIdx)
      oppCard == arrGet(st.players[oppK].hand, oppIdx)
      st1 == [st EXCEPT !.players[myK].hand = arrSet(@, myIdx, oppCard)]
      st2 == [st1 EXCEPT !.players[oppK].hand = arrSet(@, oppIdx, myCard)]
      st3 == [st2 EXCEPT !.players[myK].known = arrSet(@, myIdx, TRUE)]
      st4 == [st3 EXCEPT !.players[oppK].known = arrSet(@, oppIdx, TRUE)]
      ev1 == [type |-> "card_reveal", playerId |-> st.players[myK].id,
              cardIndex |-> myIdx, card |-> myCard]
      ev2 == [type |-> "card_reveal", playerId |-> st.players[oppK].id,
              cardIndex |-> oppIdx, card |-> oppCard]
  IN IF myIdx = Nil \/ oppIdx = Nil THEN Fail(r, "MissingIndex")
     ELSE IF ~hasPlayer(st, myK - 1) \/ ~hasPlayer(st, oppK - 1) THEN Fail(r, "TypeError")
     ELSE pushEvent(pushEvent([r EXCEPT !.st = st4], ev1), ev2)

\* mutant: the upper bound of the index is not checked
handleRevealCardNoUpperBound(effect, r, ctx) ==
  LET st == r.st
      k == resolvePlayer(st, ctx.playerId, Get(effect, "target", "currentPlayer")) + 1
      idx == paramGet(ctx.params, Get(effect, "handIndexParam", UndefinedId))
      target == st.players[k]
  IN IF idx = Nil \/ idx < 0 THEN Fail(r, "InvalidIndex")
     ELSE IF ~hasPlayer(st, k - 1) THEN Fail(r, "TypeError")
     ELSE pushEvent([r EXCEPT !.st.players[k].known = arrSet(@, idx, TRUE)],
                    [type |-> "card_reveal", playerId |-> target.id,
                     cardIndex |-> idx, card |-> arrGet(target.hand, idx)])

handleRevealCard(effect, r, ctx) ==
  LET st == r.st
      k == resolvePlayer(st, ctx.playerId, Get(effect, "target", "currentPlayer")) + 1
      idx == paramGet(ctx.params, Get(effect, "handIndexParam", UndefinedId))
      target == st.players[k]
  IN IF idx = Nil \/ idx < 0 THEN Fail(r, "InvalidIndex")
     ELSE IF ~hasPlayer(st, k - 1) THEN Fail(r, "TypeError")
     ELSE IF idx >= target.hand.len THEN Fail(r, "InvalidIndex")
     ELSE pushEvent([r EXCEPT !.st.players[k].known = arrSet(@, idx, TRUE)],
                    [type |-> "card_reveal", playerId |-> target.id,
                     cardIndex |-> idx, card |-> arrGet(target.hand, idx)])

(***************************************************************************)
(* Dispatcher and executors.  `if` and runAbilityForCard run nested effect *)
(* lists, so the dispatcher, the list runner and executeAbility are        *)
(* mutually recursive.                                                     *)
(***************************************************************************)
RECURSIVE applyEffect(_, _, _)
RECURSIVE applyEffects(_, _, _)
RECURSIVE executeAbility(_, _, _, _)

handleIf(effect, r, ctx) ==
  LET cond == evaluateCondition(Get(effect, "condition", ExprEmpty), r.st, ctx.playerId,
                                ctx.params, Get(ctx, "abilityContext", EmptyObject))
      branch == IF cond THEN Get(effect, "then", <<>>) ELSE Get(effect, "else", <<>>)
  IN applyEffects(branch, r, ctx)

handleRunAbilityForCard(effect, r, ctx) ==
  LET handIndex == paramGet(ctx.params, Get(effect, "handIndexParam", UndefinedId))
      player == r.st.players[resolvePlayer(r.st, ctx.playerId, "currentPlayer") + 1]
      card == arrGet(player.hand, handIndex)
      bound == Get(rules.metadata, "cardAbilities", EmptyObject)
      inner == executeAbility(r.st, ctx.playerId, bound[card],
                              [handIndex |-> handIndex, cardCode |-> card])
  IN IF ~hasPlayer(r.st, resolvePlayer(r.st, ctx.playerId, "currentPlayer")) THEN Fail(r, "TypeError")
     ELSE IF card \notin DOMAIN bound THEN r
     ELSE [r EXCEPT !.st = inner.st, !.err = inner.err]

effectOp(effect) == Get(effect, "op", Get(effect, "type", UndefinedId))

applyEffect(effect, r, ctx) ==
  LET op == effectOp(effect)
  IN CASE op = "moveCard" -> handleMoveCard(effect, r, ctx)
       [] op = "moveCardByIndex" -> handleMoveCardByIndex(effect, r, ctx)
       [] op = "setFlag" -> handleSetFlag(effect, r, ctx)
       [] op = "advanceTurnOrder" -> handleAdvanceTurnOrder(effect, r, ctx)
       [] op = "resetTurnFlags" -> handleResetTurnFlags(effect, r, ctx)
       [] op = "setPhase" -> handleSetPhase(effect, r, ctx)
       [] op = "log" -> handleLog(effect, r, ctx)
       [] op = "revealAllHands" -> handleRevealAllHands(effect, r, ctx)
       [] op = "scoreRound" -> handleScoreRound(effect, r, ctx)
       [] op = "if" -> handleIf(effect, r, ctx)
       [] op = "runAbilityForCard" -> handleRunAbilityForCard(effect, r, ctx)
       [] op = "swapCards" -> handleSwapCards(effect, r, ctx)
       [] op = "swapCardsWithPeek" -> handleSwapCardsWithPeek(effect, r, ctx)
       [] op = "revealCard" -> handleRevealCard(effect, r, ctx)
       [] OTHER -> Fail(r, "UnsupportedOperation")

\* mutant: a throw undoes what the effects before it did
RECURSIVE applyEffectsRollback(_, _, _)
applyEffectsRollback(effects, r, ctx) ==
  IF effects = <<>> \/ r.err # "none" THEN r
  ELSE LET out == applyEffectsRollback(Tail(effects), applyEffect(Head(effects), r, ctx), ctx)
       IN IF out.err # "none" THEN [r EXCEPT !.err = out.err] ELSE out

\* effects.forEach((effect) => this.applyEffect(effect, ctx)): a throw ends it
applyEffects(effects, r, ctx) ==
  IF effects = <<>> \/ r.err # "none" THEN r
  ELSE Bind(applyEffect(Head(effects), r, ctx), LAMBDA next : applyEffects(Tail(effects), next, ctx))

includesPhase(phases, phaseId) == \E i \in 1 .. Len(phases) : phases[i] = phaseId

isActionAllowed(st, playerId, action) ==
  LET phaseOk == ~Has(action, "allowedPhases") \/ includesPhase(action.allowedPhases, st.turn.phaseId)
      conds == Get(action, "conditions", <<>>)
  IN phaseOk /\ \A i \in 1 .. Len(conds) :
                  evaluateCondition(conds[i], st, playerId, EmptyObject, EmptyObject)

getAvailableActions(st, playerId) ==
  LET allowed(i) == isActionAllowed(st, playerId, rules.actions[actionKeys[i]])
      RECURSIVE collect(_)
      collect(i) ==
        IF i > Len(actionKeys) THEN <<>>
        ELSE (IF allowed(i) THEN <<Get(rules.actions[actionKeys[i]], "id", UndefinedId)>> ELSE <<>>)
             \o collect(i + 1)
  IN collect(1)

\* mutant: the gate is checked after the effects have run
executeActionLateGate(st, playerId, actionId, params) ==
  LET r0 == [st |-> st, events |-> <<>>, err |-> "none"]
  IN IF actionId \notin DOMAIN rules.actions THEN Fail(r0, "ActionNotFound")
     ELSE LET action == rules.actions[actionId]
              r == applyEffects(Get(action, "effects", <<>>), r0,
                                [playerId |-> playerId, params |-> params])
          IN IF ~isActionAllowed(st, playerId, action) THEN Fail(r, "ActionNotAllowed") ELSE r

executeAction(st, playerId, actionId, params) ==
  LET r0 == [st |-> st, events |-> <<>>, err |-> "none"]
  IN IF actionId \notin DOMAIN rules.actions THEN Fail(r0, "ActionNotFound")
     ELSE LET action == rules.actions[actionId]
          IN IF ~isActionAllowed(st, playerId, action) THEN Fail(r0, "ActionNotAllowed")
             ELSE applyEffects(Get(action, "effects", <<>>), r0,
                               [playerId |-> playerId, params |-> params])

executeAbility(st, playerId, abilityId, params) ==
  LET r0 == [st |-> st, events |-> <<>>, err |-> "none"]
  IN IF abilityId \notin DOMAIN rules.abilities THEN Fail(r0, "AbilityNotFound")
     ELSE LET ability == rules.abilities[abilityId]
              phases == Get(ability, "allowedPhases", <<>>)
              conds == Get(ability, "conditions", <<>>)
          IN IF ~(Len(phases) = 0 \/ includesPhase(phases, st.turn.phaseId))
               THEN Fail(r0, "AbilityPhaseNotAllowed")
             ELSE IF \E i \in 1 .. Len(conds) :
                       ~evaluateCondition(conds[i], st, playerId, EmptyObject, params)
               THEN Fail(r0, "ConditionNotSatisfied")
             ELSE applyEffects(Get(ability, "effects", <<>>), r0,
                               [playerId |-> playerId, params |-> params,
                                abilityContext |-> params])

(***************************************************************************)
(* The seeded generator.  A 32-bit integer is [hi, lo], its two 16-bit     *)
(* halves as numbers in 0 .. 65535; |0 and >>>0 leave the halves as they   *)
(* are.  A value returned by an rng function is the fraction w / 2^32 of a *)
(* 32-bit w, kept as w.                                                    *)
(***************************************************************************)
Half == 65536

word(hi, lo) == [hi |-> hi, lo |-> lo]

\* a number 0 <= n < 2^31 as a 32-bit integer
toWord(n) == word(n \div Half, n % Half)

RECURSIVE xorBits(_, _, _)
xorBits(a, b, n) ==
  IF n = 0 THEN 0
  ELSE (IF a % 2 = b % 2 THEN 0 ELSE 1) + 2 * xorBits(a \div 2, b \div 2, n - 1)

RECURSIVE orBits(_, _, _)
orBits(a, b, n) ==
  IF n = 0 THEN 0
  ELSE (IF a % 2 = 1 \/ b % 2 = 1 THEN 1 ELSE 0) + 2 * orBits(a \div 2, b \div 2, n - 1)

\* x ^ y
wordXor(x, y) == word(xorBits(x.hi, y.hi, 16), xorBits(x.lo, y.lo, 16))

\* x | y
wordOr(x, y) == word(orBits(x.hi, y.hi, 16), orBits(x.lo, y.lo, 16))

\* 2^n for 0 <= n <= 16
RECURSIVE pow2(_)
pow2(n) == IF n = 0 THEN 1 ELSE 2 * pow2(n - 1)

\* x >>> n for 0 < n < 16
wordShr(x, n) ==
  word(x.hi \div pow2(n), (x.lo \div pow2(n)) + (x.hi % pow2(n)) * pow2(16 - n))

\* (x + y) | 0
wordAdd(x, y) ==
  word((x.hi + y.hi + ((x.lo + y.lo) \div Half)) % Half, (x.lo + y.lo) % Half)

\* the product of two 16-bit numbers as a 32-bit integer
mul16(a, b) ==
  LET p0 == (a % 256) * b
      p1 == (a \div 256) * b
      low == p0 + (p1 % 256) * 256
  IN word(((low \div Half) + (p1 \div 256)) % Half, low % Half)

\* Math.imul(x, y)
imul(x, y) ==
  LET ll == mul16(x.lo, y.lo)
      cross == (mul16(x.hi, y.lo).lo + mul16(x.lo, y.hi).lo) % Half
  IN word((ll.hi + cross) % Half, ll.lo)

\* str.charCodeAt(i) of the characters the seeds are written with
charCode ==
  ("d" :> 100) @@ ("e" :> 101) @@ ("m" :> 109) @@ ("o" :> 111) @@ ("s" :> 115) @@ ("t" :> 116)

RECURSIVE hashFrom(_, _)
hashFrom(h, str) ==
  IF str = <<>> THEN h
  ELSE Bind(wordAdd(imul(toWord(31), h), toWord(charCode[Head(str)])),
            LAMBDA h1 : hashFrom(h1, Tail(str)))

hashString(str) == hashFrom(toWord(0), str)

\* one call of the function createSeededRng returns, on the closure's s:
\* the new s and the 32-bit numerator of the value returned
seededNext(s) ==
  Bind(wordAdd(s, word(27947, 31221)),                                     \* 0x6d2b79f5
       LAMBDA s1 :
         Bind(imul(wordXor(s1, wordShr(s1, 15)), wordOr(toWord(1), s1)),
              LAMBDA t1 :
                Bind(wordXor(wordAdd(t1, imul(wordXor(t1, wordShr(t1, 7)), wordOr(toWord(61), t1))), t1),
                     LAMBDA t2 : [s |-> s1, out |-> wordXor(t2, wordShr(t2, 14))])))

RECURSIVE seededFrom(_, _)
seededFrom(s, n) ==
  IF n = 0 THEN <<>>
  ELSE Bind(seededNext(s), LAMBDA x : <<x.out>> \o seededFrom(x.s, n - 1))

\* the values the first n calls of createSeededRng(seed) return; a seed is
\* [str |-> characters] (a string) or [num |-> n] (a number)
createSeededRng(seed, n) ==
  seededFrom(IF "str" \in DOMAIN seed THEN hashString(seed.str)
             ELSE toWord(IF seed.num = 0 THEN 1 ELSE seed.num), n)

\* Math.floor(x * n) for a value x = w / 2^32 an rng function returned
floorTimes(w, n) == (w.hi * n + ((w.lo * n) \div Half)) \div Half

(***************************************************************************)
(* initState.  An optional argument is <<>> when absent and <<v>> when     *)
(* given.  rng is the sequence of values the rng function returns, one per *)
(* call.                                                                   *)
(***************************************************************************)
\* mutant: ranks in the outer loop, suits in the inner one
buildDeckRanksOuter(ranks, suits) ==
  Arr([i \in 1 .. (Len(suits) * Len(ranks)) |->
         ranks[((i - 1) \div Len(suits)) + 1] \o suits[((i - 1) % Len(suits)) + 1]])

buildDeck(ranks, suits) ==
  Arr([i \in 1 .. (Len(suits) * Len(ranks)) |->
         ranks[((i - 1) % Len(ranks)) + 1] \o suits[((i - 1) \div Len(ranks)) + 1]])

RECURSIVE shuffleFrom(_, _, _, _)
shuffleFrom(list, i, rng, k) ==
  IF i <= 0 THEN list
  ELSE LET j == floorTimes(rng[k], i + 1)
           swapped == [list EXCEPT !.el[i] = list.el[j], !.el[j] = list.el[i]]
       IN shuffleFrom(swapped, i - 1, rng, k + 1)

shuffle(list, rng) == shuffleFrom(list, list.len - 1, rng, 1)

initialHandSize ==
  LET conf == Get(Get(rules.metadata, "setup", EmptyObject), "initialHandSize", 0)
  IN IF conf = 0 THEN 4 ELSE conf

\* the local `deck` of initState when the hands are about to be dealt
deckBeforeDeal(deckOverride, shuffleArg, rng) ==
  LET deckConf == Get(rules.metadata, "deck", EmptyObject)
      built == IF deckOverride # <<>> THEN Arr(deckOverride[1])
               ELSE buildDeck(Get(deckConf, "ranks", <<>>), Get(deckConf, "suits", <<>>))
      shouldShuffle == IF shuffleArg # <<>> THEN shuffleArg[1]
                       ELSE Get(Get(rules.metadata, "setup", EmptyObject), "shuffle", TRUE)
  IN IF shouldShuffle THEN shuffle(built, rng) ELSE built

\* deck.splice(0, h) of the player at idx, after the players before took theirs
dealtHand(deck0, idx, h) == arrTake(arrDrop(deck0, idx * h), h)

initState(playersIn, deckOverride, shuffleArg, rng) ==
  LET deck0 == deckBeforeDeal(deckOverride, shuffleArg, rng)
      h == initialHandSize
      playerState(idx) ==
        [id |-> IF playersIn[idx + 1].id # Nil THEN playersIn[idx + 1].id ELSE idx + 1,
         name |-> IF playersIn[idx + 1].name # "" THEN playersIn[idx + 1].name
                  ELSE "Player " \o ToString(idx + 1),
         hand |-> dealtHand(deck0, idx, h),
         known |-> arrFill(h, FALSE),
         declaredKabu |-> FALSE,
         hasJustDrawn |-> FALSE,
         lastDrawSource |-> Nil,
         lastDrawCardCode |-> Nil,
         score |-> 0]
  IN [deck |-> arrDrop(deck0, Len(playersIn) * h),
      discard |-> Arr(<<>>),
      players |-> [k \in 1 .. Len(playersIn) |-> playerState(k - 1)],
      turn |-> [phaseId |-> Get(Get(rules.metadata, "setup", EmptyObject), "initialPhaseId", "main_turn"),
                currentPlayerIndex |-> 0,
                hasDrawn |-> FALSE,
                justBurned |-> FALSE,
                hasUsedAbility |-> FALSE,
                hasDiscarded |-> FALSE],
      round |-> [number |-> 1],
      match |-> [hasWinner |-> FALSE, winnerId |-> Nil],
      log |-> <<>>,
      events |-> <<>>]

(***************************************************************************)
(* The arguments the callers of the model supply.                          *)
(***************************************************************************)
PlayerLists ==
  {[k \in 1 .. n |-> IF k = 1 THEN [id |-> 11, name |-> "Ana"] ELSE [id |-> Nil, name |-> ""]]
     : n \in 1 .. MaxPlayers}

DeckOverrides == {<<>>, << << <<"Q", "S">> >> >>}

ShuffleArgs == {<<>>, <<TRUE>>, <<FALSE>>}

RngCalls == Len(metadata.deck.ranks) * Len(metadata.deck.suits) - 1

\* the value n / RngDen of an rng function
fraction(n) == word((n * Half) \div RngDen, (((n * Half) % RngDen) * Half) \div RngDen)

RngStreams == [1 .. RngCalls -> {fraction(n) : n \in 0 .. (RngDen - 1)}]

PlayerIdArgs == {11, 99}

ActionIdArgs == DOMAIN rules.actions \cup {"unknown"}

AbilityIdArgs == DOMAIN rules.abilities \cup {"unknown"}

ParamNames == {"handIndex", "from", "to"}

IdxArgs == {Nil} \cup (0 .. MaxIdx)

\* the parameter names the effects of a rule read
RECURSIVE paramNamesOf(_)
paramNamesOf(effects) ==
  IF effects = <<>> THEN {}
  ELSE LET e == Head(effects)
           own == {e[f] : f \in DOMAIN e \cap {"param", "handIndexParam", "fromIndexParam",
                                               "toIndexParam", "myIndexParam",
                                               "opponentIndexParam"}}
       IN own \cup paramNamesOf(Get(e, "then", <<>>)) \cup paramNamesOf(Get(e, "else", <<>>))
              \cup paramNamesOf(Tail(effects))

ruleParamNames(table, id) ==
  IF id \in DOMAIN table THEN paramNamesOf(Get(table[id], "effects", <<>>)) ELSE {}

ParamArgs(names) ==
  {p \in [ParamNames -> IdxArgs] : \A n \in ParamNames \ names : p[n] = Nil}

NoCall == [kind |-> "initState", id |-> "",
           params |-> [n \in ParamNames |-> Nil], err |-> "none", events |-> <<>>,
           ret |-> <<>>]

\* one runtime only
NoTwin == [state |-> <<>>, err |-> "none", events |-> <<>>]

\* new WebRuntime({rules, rng}): the rng function is the caller's
Init ==
  \E pl \in PlayerLists, ov \in DeckOverrides, sh \in ShuffleArgs, rng \in RngStreams :
    /\ setup = [seed |-> <<>>, players |-> pl, deck |-> ov, shuffle |-> sh,
                built |-> deckBeforeDeal(ov, sh, rng)]
    /\ state = initState(pl, ov, sh, rng)
    /\ twin = NoTwin
    /\ prev = state
    /\ call = NoCall
    /\ calls = 0
    /\ thrown = FALSE

ExecuteAction ==
  /\ calls < MaxCalls
  /\ \E pid \in PlayerIdArgs, id \in ActionIdArgs :
       \E params \in ParamArgs(ruleParamNames(rules.actions, id)) :
         \E r \in {executeAction(state, pid, id, params)} :
            /\ state' = r.st
            /\ prev' = state
            /\ call' = [kind |-> "executeAction", id |-> id,
                        params |-> params, err |-> r.err, events |-> r.events, ret |-> <<>>]
            /\ calls' = calls + 1
            /\ thrown' = (thrown \/ r.err # "none")
            /\ UNCHANGED <<setup, twin>>

ExecuteAbility ==
  /\ calls < MaxCalls
  /\ \E pid \in PlayerIdArgs, id \in AbilityIdArgs :
       \E params \in ParamArgs(ruleParamNames(rules.abilities, id)) :
         \E r \in {executeAbility(state, pid, id, params)} :
            /\ state' = r.st
            /\ prev' = state
            /\ call' = [kind |-> "executeAbility", id |-> id,
                        params |-> params, err |-> r.err, events |-> r.events, ret |-> <<>>]
            /\ calls' = calls + 1
            /\ thrown' = (thrown \/ r.err # "none")
            /\ UNCHANGED <<setup, twin>>

GetAvailableActions ==
  /\ calls < MaxCalls
  /\ \E pid \in PlayerIdArgs :
       /\ call' = [kind |-> "getAvailableActions", id |-> "",
                   params |-> [n \in ParamNames |-> Nil], err |-> "none", events |-> <<>>,
                   ret |-> getAvailableActions(state, pid)]
       /\ prev' = state
       /\ calls' = calls + 1
       /\ UNCHANGED <<state, thrown, setup, twin>>

Next == ExecuteAction \/ ExecuteAbility \/ GetAvailableActions

Spec == Init /\ [][Next]_vars

(***************************************************************************)
(* Two runtimes built by new WebRuntime({rules, seed}) with the same rules *)
(* and the same seed argument, each given the same calls.  Without a seed  *)
(* the rng function of a runtime is Math.random: any stream, and not the   *)
(* same one in the two runtimes.                                           *)
(***************************************************************************)
SeedArgs ==
  {<<>>, <<[str |-> <<"t", "e", "s", "t">>]>>, <<[str |-> <<"d", "e", "m", "o">>]>>,
   <<[num |-> 7]>>, <<[num |-> 0]>>}

\* mutant: the seed is ignored
runtimeRngUnseeded(seedArg, random) == random

\* this.rng of a runtime constructed without the rng option
runtimeRng(seedArg, random) ==
  IF seedArg # <<>> THEN createSeededRng(seedArg[1], RngCalls) ELSE random

InitSeeded ==
  \E pl \in PlayerLists, sd \in SeedArgs, sh \in ShuffleArgs, r1 \in RngStreams, r2 \in RngStreams :
    \E rng1 \in {runtimeRng(sd, r1)}, rng2 \in {runtimeRng(sd, r2)} :
    /\ setup = [seed |-> sd, players |-> pl, deck |-> <<>>, shuffle |-> sh,
                built |-> deckBeforeDeal(<<>>, sh, rng1)]
    /\ state = initState(pl, <<>>, sh, rng1)
    /\ twin = [state |-> initState(pl, <<>>, sh, rng2),
               err |-> "none", events |-> <<>>]
    /\ prev = state
    /\ call = NoCall
    /\ calls = 0
    /\ thrown = FALSE

ExecuteActionTwice ==
  /\ calls < MaxTwinCalls
  /\ \E pid \in PlayerIdArgs, id \in ActionIdArgs :
       \E params \in ParamArgs(ruleParamNames(rules.actions, id)) :
         \E r \in {executeAction(state, pid, id, params)}, r2 \in {executeAction(twin.state, pid, id, params)} :
            /\ state' = r.st
            /\ twin' = [state |-> r2.st, err |-> r2.err, events |-> r2.events]
            /\ prev' = state
            /\ call' = [kind |-> "executeAction", id |-> id,
                        params |-> params, err |-> r.err, events |-> r.events, ret |-> <<>>]
            /\ calls' = calls + 1
            /\ thrown' = (thrown \/ r.err # "none")
            /\ UNCHANGED setup

ExecuteAbilityTwice ==
  /\ calls < MaxTwinCalls
  /\ \E pid \in PlayerIdArgs, id \in AbilityIdArgs :
       \E params \in ParamArgs(ruleParamNames(rules.abilities, id)) :
         \E r \in {executeAbility(state, pid, id, params)}, r2 \in {executeAbility(twin.state, pid, id, params)} :
            /\ state' = r.st
            /\ twin' = [state |-> r2.st, err |-> r2.err, events |-> r2.events]
            /\ prev' = state
            /\ call' = [kind |-> "executeAbility", id |-> id,
                        params |-> params, err |-> r.err, events |-> r.events, ret |-> <<>>]
            /\ calls' = calls + 1
            /\ thrown' = (thrown \/ r.err # "none")
            /\ UNCHANGED setup

NextSeeded == ExecuteActionTwice \/ ExecuteAbilityTwice

SpecSeeded == InitSeeded /\ [][NextSeeded]_vars

(***************************************************************************)
(* Vocabulary of the properties.                                           *)
(***************************************************************************)
\* the multiset of the elements of an array (a hole counts as undefined)
arrBag(a) ==
  LET elems == {arrGet(a, i) : i \in 0 .. (a.len - 1)}
  IN [c \in elems |-> Cardinality({i \in 0 .. (a.len - 1) : arrGet(a, i) = c})]

RECURSIVE handsBag(_, _)
handsBag(st, k) ==
  IF k > playerCount(st) THEN EmptyBag ELSE arrBag(st.players[k].hand) (+) handsBag(st, k + 1)

RECURSIVE handsLen(_, _)
handsLen(st, k) ==
  IF k > playerCount(st) THEN 0 ELSE st.players[k].hand.len + handsLen(st, k + 1)

pilesBag(st) == arrBag(st.deck) (+) arrBag(st.discard) (+) handsBag(st, 1)

pilesLen(st) == st.deck.len + st.discard.len + handsLen(st, 1)

\* the deck held a full hand for every player when initState dealt
fullDeal == setup.built.len >= Len(setup.players) * initialHandSize

returned == call.err = "none"

isAction(id) == call.kind = "executeAction" /\ call.id = id

isAbility(id) == call.kind = "executeAbility" /\ call.id = id

\* 0-based index of the current player before the last call, and that player
prevCur == prev.turn.currentPlayerIndex

prevHand == prev.players[prevCur + 1].hand

curHand == state.players[prevCur + 1].hand

(***************************************************************************)
(* C1 (card conservation): after any sequence of successfully returning    *)
(* executeAction/executeAbility calls the multiset of card codes in deck,  *)
(* discard and all hands is the one initState established, and so is the   *)
(* total |deck| + |discard| + sum of |hand_i|.                             *)
(* Refuted by swapCards with an index outside a hand.                      *)
(***************************************************************************)
CardConservation ==
  ~thrown => /\ pilesBag(state) = arrBag(setup.built)
             /\ pilesLen(state) = setup.built.len

(***************************************************************************)
(* C2 (known/hand length parity): for every player len(known) = len(hand), *)
(* in the state initState returns and after every effect that mutates a    *)
(* hand.  Stated here for the games whose deal was complete.               *)
(* Refuted by moveCard into a hand, which leaves known alone.              *)
(***************************************************************************)
KnownHandParity ==
  fullDeal => \A k \in 1 .. playerCount(state) :
                state.players[k].known.len = state.players[k].hand.len

(***************************************************************************)
(* C3 (a rejected call changes nothing): executeAction for an unknown id,  *)
(* for an action whose allowedPhases excludes the current phase, or for an *)
(* action one of whose conditions is false, raises an error and leaves     *)
(* every field of the GameState as it was; no effect is run.               *)
(***************************************************************************)
phaseExcluded(st, id) ==
  /\ Has(rules.actions[id], "allowedPhases")
  /\ st.turn.phaseId \notin {rules.actions[id].allowedPhases[i] :
                               i \in 1 .. Len(rules.actions[id].allowedPhases)}

conditionFalse(st, id) ==
  LET conds == Get(rules.actions[id], "conditions", <<>>)
  IN \E i \in 1 .. Len(conds) : \A pid \in PlayerIdArgs :
       ~evaluateCondition(conds[i], st, pid, EmptyObject, EmptyObject)

mustReject(st, id) ==
  id \notin DOMAIN rules.actions \/ phaseExcluded(st, id) \/ conditionFalse(st, id)

RejectedCallChangesNothing ==
  (call.kind = "executeAction" /\ mustReject(prev, call.id))
    => call.err # "none" /\ state = prev /\ call.events = <<>>

RejectedCallWitness ==
  /\ isAction("draw")
  /\ prev.turn.phaseId = "last_round"
  /\ prev.deck.len > 0
  /\ call.err = "ActionNotAllowed"

(***************************************************************************)
(* C4 (turn advance): advanceTurnOrder sets currentPlayerIndex to          *)
(* (old index + 1) mod n, so to 0 from the last player, leaves the four    *)
(* turn flags false whatever they were, and changes phaseId only when the  *)
(* effect carries one.                                                     *)
(***************************************************************************)
AdvanceTurnOrderWraps ==
  (returned /\ (isAction("end_turn") \/ isAction("call_kabu")))
    => /\ state.turn.currentPlayerIndex = (prevCur + 1) % playerCount(prev)
       /\ prevCur = playerCount(prev) - 1 => state.turn.currentPlayerIndex = 0
       /\ ~state.turn.hasDrawn /\ ~state.turn.justBurned
       /\ ~state.turn.hasUsedAbility /\ ~state.turn.hasDiscarded
       /\ state.turn.phaseId = IF isAction("call_kabu") THEN "last_round" ELSE prev.turn.phaseId

AdvanceTurnOrderWitness ==
  /\ isAction("end_turn") /\ returned
  /\ playerCount(prev) = 2 /\ prevCur = 1
  /\ prev.turn.justBurned /\ prev.turn.hasDiscarded
  /\ state.turn.currentPlayerIndex = 0

(***************************************************************************)
(* C5 (win detection): scoreRound adds to each player's score the sum of   *)
(* the configured values of the ranks in the hand (0 for an unknown rank)  *)
(* and emits one round_score event per player; then, if some accumulated   *)
(* score is <= kabuWinScore, match.hasWinner is true, match.winnerId is    *)
(* the id of the lowest-index such player and the phase is game_over;      *)
(* otherwise match and the phase are unchanged.                            *)
(***************************************************************************)
\* the value of each card code of the model under metadata.cardValues
codeValue ==
  (<<"A", "H">> :> 1) @@ (<<"A", "S">> :> 1) @@ (<<"K", "H">> :> 10) @@ (<<"K", "S">> :> 10)
    @@ (<<"Q", "S">> :> 0)

RECURSIVE handValue(_, _)
handValue(hand, i) ==
  IF i >= hand.len THEN 0
  ELSE (IF i \in DOMAIN hand.el THEN codeValue[hand.el[i]] ELSE 0) + handValue(hand, i + 1)

qualifying(st) ==
  {k \in 1 .. playerCount(st) : st.players[k].score <= rules.metadata.kabuWinScore}

WinDetection ==
  (isAction("score") /\ returned)
    => /\ \A k \in 1 .. playerCount(prev) :
            state.players[k].score = prev.players[k].score + handValue(prev.players[k].hand, 0)
       /\ call.events = [k \in 1 .. playerCount(prev) |->
                           [type |-> "round_score", playerId |-> prev.players[k].id,
                            score |-> handValue(prev.players[k].hand, 0)]]
       /\ IF qualifying(state) # {}
          THEN /\ state.match.hasWinner
               /\ \E k \in qualifying(state) :
                    /\ \A j \in qualifying(state) : k <= j
                    /\ state.match.winnerId = state.players[k].id
               /\ state.turn.phaseId = "game_over"
          ELSE state.match = prev.match /\ state.turn.phaseId = prev.turn.phaseId

WinDetectionWitness ==
  /\ isAction("score") /\ returned
  /\ playerCount(state) = 2
  /\ qualifying(state) = {1, 2}
  /\ state.players[2].score < state.players[1].score
  /\ state.match.winnerId = state.players[1].id

(***************************************************************************)
(* C6 (gating correctness): the list getAvailableActions returns is        *)
(* exactly the set of the keys of the actions mapping (the ids             *)
(* executeAction accepts) whose action isActionAllowed accepts.            *)
(* Refuted: the list holds each action's own `id` field, which an action   *)
(* need not have.                                                          *)
(***************************************************************************)
GatingCorrect ==
  call.kind = "getAvailableActions"
    => \A pid \in PlayerIdArgs :
         {call.ret[i] : i \in 1 .. Len(call.ret)}
           = {key \in DOMAIN rules.actions : isActionAllowed(prev, pid, rules.actions[key])}

(***************************************************************************)
(* C7 (shuffle-disabled deck order): initState with shuffle disabled and   *)
(* no override deck builds the ranks x suits product in a fixed loop order *)
(* and deals from that order.  The claim has the ranks in the outer loop   *)
(* (r1s1, r1s2, r2s1, r2s2): DeckOrderRanksOuter, refuted.  The code has   *)
(* the suits in the outer loop (r1s1, r2s1, r1s2, r2s2):                   *)
(* DeckOrderSuitsOuter.                                                    *)
(***************************************************************************)
shuffleDisabled ==
  setup.shuffle = <<FALSE>> \/ (setup.shuffle = <<>> /\ ~rules.metadata.setup.shuffle)

ranksOuterOrder == << <<"A", "H">>, <<"A", "S">>, <<"K", "H">>, <<"K", "S">> >>

suitsOuterOrder == << <<"A", "H">>, <<"K", "H">>, <<"A", "S">>, <<"K", "S">> >>

\* the state initState returns when it deals one card each from `order`
dealtFrom(order) ==
  /\ \A k \in 1 .. playerCount(state) : state.players[k].hand = Arr(<<order[k]>>)
  /\ state.deck = Arr(SubSeq(order, playerCount(state) + 1, Len(order)))

DeckOrderRanksOuter ==
  (setup.deck = <<>> /\ shuffleDisabled)
    => setup.built = Arr(ranksOuterOrder) /\ (calls = 0 => dealtFrom(ranksOuterOrder))

DeckOrderSuitsOuter ==
  (setup.deck = <<>> /\ shuffleDisabled)
    => setup.built = Arr(suitsOuterOrder) /\ (calls = 0 => dealtFrom(suitsOuterOrder))

DeckOrderWitness ==
  /\ calls = 0 /\ call.kind = "initState"
  /\ setup.deck = <<>> /\ setup.shuffle = <<FALSE>>
  /\ playerCount(state) = 2
  /\ state.deck.len = 2

(***************************************************************************)
(* C8 (initial deal): initState gives player k the k-th consecutive block  *)
(* of exactly initialHandSize cards from the front of the (possibly        *)
(* shuffled) deck and leaves the remaining cards, in order, in state.deck, *)
(* so |deck| = |built| - players x initialHandSize.                        *)
(* Refuted: when the deck is shorter than players x initialHandSize,       *)
(* splice hands out what is left and a player is dealt fewer cards, or     *)
(* none.  InitialDealClipped states what initState does in every case.     *)
(***************************************************************************)
\* the elements of array b at positions lo .. lo + n - 1 that exist
block(b, lo, n) ==
  LET avail == IF b.len - lo < 0 THEN 0 ELSE b.len - lo
      m == IF n < avail THEN n ELSE avail
  IN [len |-> m, el |-> [i \in 0 .. (m - 1) |-> b.el[lo + i]]]

InitialDealExact ==
  calls = 0
    => /\ \A k \in 1 .. playerCount(state) :
            /\ state.players[k].hand.len = initialHandSize
            /\ state.players[k].hand = block(setup.built, (k - 1) * initialHandSize, initialHandSize)
       /\ state.deck.len = setup.built.len - playerCount(state) * initialHandSize
       /\ state.deck = block(setup.built, playerCount(state) * initialHandSize, setup.built.len)

InitialDealClipped ==
  calls = 0
    => /\ \A k \in 1 .. playerCount(state) :
            /\ state.players[k].hand = block(setup.built, (k - 1) * initialHandSize, initialHandSize)
            /\ fullDeal => state.players[k].hand.len = initialHandSize
       /\ state.deck = block(setup.built, playerCount(state) * initialHandSize, setup.built.len)
       /\ fullDeal => state.deck.len = setup.built.len - playerCount(state) * initialHandSize
       /\ ~fullDeal => state.deck.len = 0

InitialDealWitness ==
  /\ calls = 0 /\ call.kind = "initState"
  /\ setup.shuffle = <<TRUE>> /\ setup.deck = <<>>
  /\ setup.built # Arr(suitsOuterOrder)
  /\ playerCount(state) = 2
  /\ state.players[2].hand.len = 1 /\ state.deck.len = 2

without(a, i) ==
  [len |-> a.len - 1,
   el |-> [j \in {k \in 0 .. (a.len - 2) : (IF k < i THEN k ELSE k + 1) \in DOMAIN a.el}
             |-> a.el[IF j < i THEN j ELSE j + 1]]]

holdsCard(a, i) == i \in DOMAIN a.el /\ a.el[i] # Undefined

\* the number of positions of array a that hold a card
cardsIn(a) == Cardinality({j \in DOMAIN a.el : a.el[j] # Undefined})

MoveCardByIndexOnlyFromParam ==
  (isAction("burn") /\ returned)
    => LET i == call.params.handIndex
       IN IF holdsCard(prevHand, i)
          THEN /\ curHand = without(prevHand, i)
               /\ state.discard.len = prev.discard.len + 1
               /\ state.discard.el = (prev.discard.len :> prevHand.el[i]) @@ prev.discard.el
          ELSE /\ state.discard = prev.discard
               /\ cardsIn(curHand) = cardsIn(prevHand)

(***************************************************************************)
(* C11 (revealCard): with a parameter index i inside the target player's   *)
(* hand, revealCard sets known[i] = true for that player, emits exactly    *)
(* one card_reveal event with that player's id, the index i and the code   *)
(* hand[i], and changes no hand, pile or other known flag; with an absent  *)
(* or out-of-bounds index it fails with the invalid-index error and leaves *)
(* the state and the event list unchanged.  Checked on the ability peek    *)
(* (revealCard on currentPlayer) in the phases that admit it, when there   *)
(* is a target player (currentPlayerIndex is an index of players).         *)
(***************************************************************************)
prevKnown == prev.players[prevCur + 1].known

curKnown == state.players[prevCur + 1].known

RevealCardReveals ==
  (/\ isAbility("peek")
   /\ includesPhase(rules.abilities.peek.allowedPhases, prev.turn.phaseId)
   /\ hasPlayer(prev, prevCur))
    => LET i == call.params.handIndex
       IN IF i # Nil /\ i >= 0 /\ i < prevHand.len
          THEN /\ returned
               /\ i \in DOMAIN curKnown.el /\ curKnown.el[i] = TRUE
               /\ DOMAIN curKnown.el = DOMAIN prevKnown.el \cup {i}
               /\ \A j \in DOMAIN prevKnown.el \ {i} : curKnown.el[j] = prevKnown.el[j]
               /\ call.events = << [type |-> "card_reveal",
                                    playerId |-> prev.players[prevCur + 1].id,
                                    cardIndex |-> i,
                                    card |-> arrGet(prevHand, i)] >>
               /\ state = [prev EXCEPT !.players[prevCur + 1].known = curKnown]
          ELSE /\ call.err = "InvalidIndex"
               /\ call.events = <<>>
               /\ state = prev

RevealCardWitness ==
  /\ isAbility("peek") /\ returned
  /\ prevHand.len = 2 /\ call.params.handIndex = 0
  /\ prevKnown.el[0] = FALSE /\ curKnown.el[0] = TRUE
  /\ Len(call.events) = 1

(***************************************************************************)
(* C12 (swapCards, reveal false): between the current player at index i    *)
(* and the next player at index j it exchanges exactly hand[i] of the one  *)
(* with hand[j] of the other, sets both involved known flags to false even *)
(* if they were true, emits no event and leaves every other hand slot and  *)
(* known flag unchanged; with either index absent it fails with the        *)
(* missing-index error before changing anything.  Checked on the action    *)
(* swap in the phase that admits it, when there is a current player        *)
(* (currentPlayerIndex is an index of players).                            *)
(***************************************************************************)
prevNext == jsRem(prevCur + 1, playerCount(prev))

\* the state with every hand and known array put back to what it was
withPrevHands ==
  [state EXCEPT !.players = [p \in 1 .. playerCount(prev) |->
                               [state.players[p] EXCEPT !.hand = prev.players[p].hand,
                                                        !.known = prev.players[p].known]]]

\* the known flag at position x, if there is one
flagAt(known, x) == IF x \in DOMAIN known.el THEN <<known.el[x]>> ELSE <<>>

SwapCardsExchanges ==
  (isAction("swap") /\ prev.turn.phaseId = "main_turn" /\ hasPlayer(prev, prevCur))
    => LET i == call.params.from
           j == call.params.to
           a == prevCur + 1
           b == prevNext + 1
           slots(p) == 0 .. (state.players[p].hand.len + state.players[p].known.len)
           involved == {<<a, i>>, <<b, j>>}
       IN IF i = Nil \/ j = Nil
          THEN call.err = "MissingIndex" /\ state = prev /\ call.events = <<>>
          ELSE /\ returned
               /\ call.events = <<>>
               /\ arrGet(state.players[a].hand, i) = arrGet(prev.players[b].hand, j)
               /\ arrGet(state.players[b].hand, j) = arrGet(prev.players[a].hand, i)
               /\ flagAt(state.players[a].known, i) = <<FALSE>>
               /\ flagAt(state.players[b].known, j) = <<FALSE>>
               /\ \A p \in 1 .. playerCount(prev) : \A x \in slots(p) :
                    <<p, x>> \notin involved
                      => /\ arrGet(state.players[p].hand, x) = arrGet(prev.players[p].hand, x)
                         /\ flagAt(state.players[p].known, x) = flagAt(prev.players[p].known, x)
               /\ (i < prev.players[a].hand.len /\ j < prev.players[b].hand.len)
                    => \A p \in 1 .. playerCount(prev) :
                         state.players[p].hand.len = prev.players[p].hand.len
               /\ withPrevHands = prev

SwapCardsWitness ==
  /\ isAction("swap") /\ returned
  /\ playerCount(prev) = 2
  /\ call.params.from = 0 /\ call.params.to = 0
  /\ flagAt(prev.players[prevCur + 1].known, 0) = <<TRUE>>
  /\ flagAt(prev.players[prevNext + 1].known, 0) = <<TRUE>>
  /\ flagAt(state.players[prevCur + 1].known, 0) = <<FALSE>>
  /\ prev.players[1].hand.el[0] # prev.players[2].hand.el[0]
  /\ state.players[1].hand.el[0] = prev.players[2].hand.el[0]

outsideHand(i, hand) == i = Nil \/ i < 0 \/ i >= hand.len

\* the state after revealAllHands
allRevealed(st) ==
  [st EXCEPT !.players = [p \in 1 .. playerCount(st) |->
                            [st.players[p] EXCEPT !.known = arrFill(st.players[p].hand.len, TRUE)]]]

NoRollback ==
  /\ (/\ isAction("look") /\ prev.turn.phaseId = "main_turn"
      /\ prev.players[prevNext + 1].hand.len > 0
      /\ outsideHand(call.params.handIndex, prev.players[prevNext + 1].hand))
       => /\ call.err = "InvalidIndex"
          /\ state = [prev EXCEPT !.turn.hasUsedAbility = TRUE]
  /\ (isAction("probe") /\ prev.turn.phaseId = "main_turn" /\ call.params.handIndex = Nil)
       => /\ call.err = "InvalidIndex"
          /\ state = [prev EXCEPT !.log = Append(@, "no index")]
  /\ (/\ isAction("probe") /\ prev.turn.phaseId = "main_turn" /\ call.params.handIndex # Nil
      /\ hasPlayer(prev, prevCur) /\ outsideHand(call.params.handIndex, prevHand))
       => /\ call.err = "InvalidIndex"
          /\ state = allRevealed(prev)

NoRollbackWitness ==
  /\ isAction("look") /\ call.err = "InvalidIndex"
  /\ ~prev.turn.hasUsedAbility /\ state.turn.hasUsedAbility
  /\ state.log = prev.log
  /\ state # prev

(***************************************************************************)
(* C15 (valid current player index): in every state reachable from         *)
(* initState with at least one player by executeAction/executeAbility      *)
(* calls over the built-in effects (setFlag and advanceTurnOrder           *)
(* included), 0 <= turn.currentPlayerIndex < number of players.            *)
(* Refuted: setFlag writes turn.currentPlayerIndex unchecked.              *)
(***************************************************************************)
ValidCurrentPlayerIndex ==
  playerCount(state) >= 1
    => /\ state.turn.currentPlayerIndex >= 0
       /\ state.turn.currentPlayerIndex < playerCount(state)

(***************************************************************************)
(* C16 (terminal phase after a win): in every state reachable from         *)
(* initState by executeAction/executeAbility calls, match.hasWinner = true *)
(* implies turn.phaseId = "game_over": no effect executed after the winner *)
(* is set moves the phase away from the terminal value.                    *)
(* Refuted: setPhase (and advanceTurnOrder with a phaseId) write the phase *)
(* whether or not there is a winner.                                       *)
(***************************************************************************)
TerminalPhaseAfterWin ==
  state.match.hasWinner => state.turn.phaseId = "game_over"

(***************************************************************************)
(* C17 (one events accumulator per call): the events list a call returns   *)
(* holds, in emission order, every event emitted by every effect executed  *)
(* during the call, those emitted inside `if` branches and by the effects  *)
(* of an ability invoked through runAbilityForCard included; the events of *)
(* nested effects come before those of the following effects.              *)
(* EventsOfIfBranch is the part about `if` (action probe);                 *)
(* EventsAccumulated adds the part about runAbilityForCard (action         *)
(* use_card on a card bound to the ability peek), which is refuted: the    *)
(* ability runs with an events list of its own, which is dropped.          *)
(***************************************************************************)
cardReveal(st, k, i) ==
  [type |-> "card_reveal", playerId |-> st.players[k].id, cardIndex |-> i,
   card |-> arrGet(st.players[k].hand, i)]

handReveals(st) ==
  [p \in 1 .. playerCount(st) |->
     [type |-> "hand_reveal", playerId |-> st.players[p].id, hand |-> arrCopy(st.players[p].hand)]]

EventsOfIfBranch ==
  (isAction("probe") /\ returned)
    => call.events = handReveals(prev) \o <<cardReveal(prev, prevCur + 1, call.params.handIndex)>>

EventsAccumulated ==
  /\ EventsOfIfBranch
  /\ (/\ isAction("use_card") /\ returned
      /\ arrGet(prevHand, call.params.handIndex) \in DOMAIN rules.metadata.cardAbilities)
       => call.events = <<cardReveal(prev, prevCur + 1, call.params.handIndex)>>

(***************************************************************************)
(* C18 (phase gate is the same for actions and abilities): whenever the    *)
(* rule of an executeAction or executeAbility call declares an             *)
(* allowedPhases list, the empty list included, that does not contain the  *)
(* current phase, the call fails with the phase error before any effect    *)
(* runs; a rule that declares no allowedPhases passes the phase gate in    *)
(* every phase.  ActionPhaseGate is the part about actions;                *)
(* PhaseGateUniform adds abilities, and is refuted by an ability whose     *)
(* list is empty (inspect), which passes the gate in every phase.          *)
(***************************************************************************)
declaresPhases(rule) == Has(rule, "allowedPhases")

listsPhase(rule, phaseId) ==
  phaseId \in {rule.allowedPhases[i] : i \in 1 .. Len(rule.allowedPhases)}

phaseError == IF call.kind = "executeAction" THEN "ActionNotAllowed" ELSE "AbilityPhaseNotAllowed"

phaseGate(rule) ==
  /\ (declaresPhases(rule) /\ ~listsPhase(rule, prev.turn.phaseId))
       => call.err = phaseError /\ state = prev /\ call.events = <<>>
  /\ (~declaresPhases(rule) /\ Get(rule, "conditions", <<>>) = <<>>)
       => call.err # phaseError

ActionPhaseGate ==
  (call.kind = "executeAction" /\ call.id \in DOMAIN rules.actions)
    => phaseGate(rules.actions[call.id])

PhaseGateUniform ==
  /\ ActionPhaseGate
  /\ (call.kind = "executeAbility" /\ call.id \in DOMAIN rules.abilities)
       => phaseGate(rules.abilities[call.id])

(***************************************************************************)
(* C19 (the condition scope carries the call's params): the gate           *)
(* conditions of executeAction and of executeAbility are evaluated against *)
(* a scope whose params is the params object of the call, as the condition *)
(* of an `if` effect is; so a call that passes the phase gate is rejected  *)
(* by the condition gate exactly when one of the rule's conditions is      *)
(* false under the call's params.  Refuted: the gates evaluate their       *)
(* conditions with params = {} (probe, inspect with a handIndex).          *)
(***************************************************************************)
gateWith(rule, params, abilityContext) ==
  LET conds == Get(rule, "conditions", <<>>)
  IN \A i \in 1 .. Len(conds) : \A pid \in PlayerIdArgs :
       evaluateCondition(conds[i], prev, pid, params, abilityContext)

ParamsInGateScope ==
  /\ (/\ call.kind = "executeAction" /\ call.id \in DOMAIN rules.actions
      /\ ~phaseExcluded(prev, call.id))
       => ((call.err # "ActionNotAllowed")
             <=> gateWith(rules.actions[call.id], call.params, EmptyObject))
  /\ (/\ call.kind = "executeAbility" /\ call.id \in DOMAIN rules.abilities
      /\ call.err # "AbilityPhaseNotAllowed")
       => ((call.err # "ConditionNotSatisfied")
             <=> gateWith(rules.abilities[call.id], call.params, call.params))

(***************************************************************************)
(* C20 (gating does not depend on the caller's playerId): in every state,  *)
(* isActionAllowed gives the same verdict for every playerId and every     *)
(* action, so getAvailableActions returns the same list and executeAction  *)
(* rejects at its gate for the same actions, whoever calls: the list a     *)
(* getAvailableActions call returned is the list of every other caller,    *)
(* and an executeAction call was rejected at the gate exactly when         *)
(* isActionAllowed is false for every caller.                              *)
(***************************************************************************)
\* the values f takes over the callers are one value
sameForEveryCaller(f(_)) == Cardinality({f(p) : p \in PlayerIdArgs}) = 1

GatingIgnoresPlayerId ==
  /\ \A id \in DOMAIN rules.actions :
       LET verdict(p) == isActionAllowed(state, p, rules.actions[id])
       IN sameForEveryCaller(verdict)
  /\ LET available(p) == getAvailableActions(state, p)
     IN sameForEveryCaller(available)
  /\ call.kind = "getAvailableActions"
       => \A p \in PlayerIdArgs : call.ret = getAvailableActions(prev, p)
  /\ (call.kind = "executeAction" /\ call.id \in DOMAIN rules.actions)
       => \A p \in PlayerIdArgs :
            (call.err = "ActionNotAllowed") = ~isActionAllowed(prev, p, rules.actions[call.id])

\* the caller 11 sits at seat 0, the turn is at seat 1, and the two hands differ
\* in being empty, so that the condition of look on nextPlayer tells the seats apart
GatingIgnoresPlayerIdWitness ==
  /\ call.kind = "getAvailableActions"
  /\ playerCount(state) = 2
  /\ state.turn.currentPlayerIndex = 1
  /\ state.turn.phaseId = "main_turn"
  /\ state.players[1].id = 11
  /\ (state.players[1].hand.len = 0) # (state.players[2].hand.len = 0)

(***************************************************************************)
(* C21 (a failing effect is itself atomic): when a call ends with an error *)
(* raised by an effect handler (unknown op, unsupported pile reference in  *)
(* from or to, unsupported target, missing swap index, invalid reveal      *)
(* index), the state is exactly the state after the effects of the rule    *)
(* that precede the failing one: the failing handler changed nothing, so   *)
(* the piles hold the cards they held after those effects.                 *)
(* FailingEffectAtomic is refuted by moveCard with an unsupported `to`     *)
(* (stash): the card has left the deck when pushTo throws.                 *)
(* FailureBeforeWriteAtomic is the part that holds: every failure other    *)
(* than the one of pushTo.                                                 *)
(***************************************************************************)
handlerErrors ==
  {"UnsupportedOperation", "UnsupportedReference", "UnsupportedTarget", "MissingIndex",
   "InvalidIndex"}

calledRule ==
  IF call.kind = "executeAction" THEN rules.actions[call.id] ELSE rules.abilities[call.id]

\* the outcome of the first k effects of the called rule, run on the previous state
afterEffects(k, playerId) ==
  applyEffects(SubSeq(Get(calledRule, "effects", <<>>), 1, k),
               [st |-> prev, events |-> <<>>, err |-> "none"],
               IF call.kind = "executeAction" THEN [playerId |-> playerId, params |-> call.params]
               ELSE [playerId |-> playerId, params |-> call.params,
                     abilityContext |-> call.params])

\* the effects of the called rule that ran without error: the failing one is the next
precedingEffects(playerId) ==
  CHOOSE k \in 0 .. Len(Get(calledRule, "effects", <<>>)) :
    /\ afterEffects(k, playerId).err = "none"
    /\ k < Len(Get(calledRule, "effects", <<>>)) => afterEffects(k + 1, playerId).err # "none"

handlerFailed ==
  /\ \/ call.kind = "executeAction" /\ call.id \in DOMAIN rules.actions
     \/ call.kind = "executeAbility" /\ call.id \in DOMAIN rules.abilities
  /\ call.err \in handlerErrors

\* the failing effect moves a card to a reference pushTo does not support
failedInPushTo ==
  \E pid \in PlayerIdArgs :
    LET effects == Get(calledRule, "effects", <<>>)
        failing == effects[precedingEffects(pid) + 1]
    IN /\ effectOp(failing) \in {"moveCard", "moveCardByIndex"}
       /\ failing.to \notin {"deck", "discard", "hand", "currentPlayer.hand", "nextPlayer.hand"}

stateAfterPreceding ==
  \E pid \in PlayerIdArgs : state = afterEffects(precedingEffects(pid), pid).st

FailureBeforeWriteAtomic == (handlerFailed /\ ~failedInPushTo) => stateAfterPreceding

FailingEffectAtomic == handlerFailed => stateAfterPreceding

====
